---- MODULE Spec2Model ----
(***************************************************************************)
(* Model of decision_trees/dataset_tester.py (test_dataset,                *)
(* report_performance, generate_my_classifier,                             *)
(* _compare_with_own_classifier) and decision_trees/datasets/emg_raw.py    *)
(* (EMGRaw._update_min_max, _load_files, load_data, _normalise).           *)
(*                                                                         *)
(* Four specifications share the module:                                   *)
(*   SpecCompare   _compare_with_own_classifier on arbitrary inputs        *)
(*   SpecGenerate  generate_my_classifier on arbitrary trained models      *)
(*   SpecTest      test_dataset, which calls the two above                 *)
(*   SpecEMG       EMGRaw.load_data                                        *)
(***************************************************************************)
EXTENDS Integers, Sequences, FiniteSets, TLC

VARIABLES
    \* ---- _compare_with_own_classifier: arguments
    cmp_pc,                     \* "idle" | "entry" | "loop" | "summary" | "done"
    results,                    \* list of prediction sets, one per variant
    results_names,              \* list of variant names
    test_target,                \* ground-truth vector
    flag_save_details_to_file,  \* bool
    \* ---- _compare_with_own_classifier: locals and outputs
    flag_no_errors,
    number_of_errors,
    comparision_file,           \* NoFile (None) or the open file with the lines printed to it
    j,                          \* the sample index of the next iteration (0-based, as in the code)
    visited,                    \* the sample indices the outer loop has run for, in order
    stdout,                     \* the lines the summary has printed
    \* ---- generate_my_classifier
    gen_pc,                     \* "idle" | "entry" | "constructed" | "built" | "vhdl" | "printed"
                                \*        | "returned" | "raised"
    gen_clf,                    \* argument clf: the trained model
    gen_number_of_features,     \* argument number_of_features
    gen_number_of_bits_per_feature, \* argument number_of_bits_per_feature
    gen_my_clf,                 \* local my_clf
    gen_return,                 \* the returned classifier (NoMyClf while there is none)
    gen_calls,                  \* the calls made on my_clf, in order
    \* ---- test_dataset
    td_pc,
    number_of_bits_per_feature, \* argument
    clf_type,                   \* argument
    number_of_features,         \* len(train_data[0])
    td_test_target,             \* argument test_target
    clf,                        \* the scikit classifier
    data_quantized,             \* train_data_quantized, test_data_quantized
    test_predicted,
    test_predicted_quantized,
    my_clf,
    my_clf_test_predicted_quantized,
    differences_scikit_my,
    score_file,                 \* the reports appended to result_file / printed
    \* ---- EMGRaw
    emg_pc,
    min_max,                    \* self._min_rms, _max_rms, _min_zero_crossings, _max_zero_crossings
    input_train_data,
    output_train_data,
    input_test_data,
    output_test_data,
    raw_train,                  \* the rows read from the train input files, as read
    raw_test,                   \* the rows read from the test input files, as read
    normalise_used,             \* the (min, max) fields each _normalise call has read
    emg_calls                   \* the _load_files and _normalise calls made, in order

cmp_vars == << cmp_pc, results, results_names, test_target, flag_save_details_to_file,
               flag_no_errors, number_of_errors, comparision_file, j, visited, stdout >>

gen_vars == << gen_pc, gen_clf, gen_number_of_features, gen_number_of_bits_per_feature,
               gen_my_clf, gen_return, gen_calls >>

td_vars == << td_pc, number_of_bits_per_feature, clf_type, number_of_features,
              td_test_target, clf, data_quantized, test_predicted,
              test_predicted_quantized, my_clf, my_clf_test_predicted_quantized,
              differences_scikit_my, score_file >>

emg_vars == << emg_pc, min_max, input_train_data, output_train_data, input_test_data,
               output_test_data, raw_train, raw_test, normalise_used, emg_calls >>

vars == << cmp_vars, gen_vars, td_vars, emg_vars >>

-----------------------------------------------------------------------------
(* Bounds of the model *)

MaxSamples == 2
MaxVariants == 3

Classes == {0, 1}

NamePool == << "scikit", "scikit_quantized", "own_clf_quantized", "variant_4", "variant_5" >>

Vectors(n) == [1..n -> Classes]

-----------------------------------------------------------------------------
(* _compare_with_own_classifier *)

\* Python's range(0, n), as the sequence of its values
Range0(n) == [k \in 1..n |-> k - 1]

\* results[i][j] and test_target[j] with the code's 0-based indices
ResultAt(res, i, jj) == res[i + 1][jj + 1]
TargetAt(tgt, jj) == tgt[jj + 1]

\* lines 185-189: the inner loop over the variants for sample jj, from variant i on.
\* st = [noe: number_of_errors, fne: flag_no_errors, fie: flag_iteration_error]
RECURSIVE CheckVariants(_, _, _, _, _)
CheckVariantsSharedCounter(res, tgt, jj, i, st) ==
    IF i >= Len(res) THEN st
    ELSE IF ResultAt(res, i, jj) # TargetAt(tgt, jj)
         THEN CheckVariants(res, tgt, jj, i + 1,
                  [noe |-> [k \in 1..Len(st.noe) |-> st.noe[k] + 1],
                   fne |-> FALSE,
                   fie |-> TRUE])
         ELSE CheckVariants(res, tgt, jj, i + 1, st)

CheckVariantsLastOnly(res, tgt, jj, i, st) ==
    IF i >= Len(res) THEN st
    ELSE IF ResultAt(res, i, jj) # TargetAt(tgt, jj)
         THEN CheckVariants(res, tgt, jj, i + 1,
                  [noe |-> [st.noe EXCEPT ![i + 1] = @ + 1],
                   fne |-> FALSE,
                   fie |-> TRUE])
         ELSE CheckVariants(res, tgt, jj, i + 1, [st EXCEPT !.fie = FALSE])

CheckVariants(res, tgt, jj, i, st) ==
    IF i >= Len(res) THEN st
    ELSE IF ResultAt(res, i, jj) # TargetAt(tgt, jj)
         THEN CheckVariants(res, tgt, jj, i + 1,
                  [noe |-> [st.noe EXCEPT ![i + 1] = @ + 1],
                   fne |-> FALSE,
                   fie |-> TRUE])
         ELSE CheckVariants(res, tgt, jj, i + 1, st)

\* lines 192-195: the entry printed for sample jj
EntryLines(res, names, tgt, jj) ==
    << << "Difference between versions!" >>,
       << "Ground true: ", TargetAt(tgt, jj) >> >>
    \o [k \in 1..Len(res) |-> << names[k], ResultAt(res, k - 1, jj) >>]

\* comparision_file: None, or the file opened for writing (truncated)
NoFile == [open |-> FALSE, lines |-> << >>]
OpenFile == [open |-> TRUE, lines |-> << >>]

\* lines 175-180
CompareEntry ==
    /\ cmp_pc = "entry"
    /\ flag_no_errors' = TRUE
    /\ number_of_errors' = [k \in 1..Len(results) |-> 0]
    /\ comparision_file' = IF flag_save_details_to_file THEN OpenFile ELSE NoFile
    /\ j' = 0
    /\ cmp_pc' = "loop"
    /\ UNCHANGED << results, results_names, test_target, flag_save_details_to_file,
                    visited, stdout >>
    /\ UNCHANGED << gen_vars, td_vars, emg_vars >>

\* lines 182-195: one iteration of the outer loop
CompareSampleAborts ==
    /\ cmp_pc = "loop"
    /\ j < Len(test_target)
    /\ LET st == CheckVariants(results, test_target, j, 0,
                     [noe |-> number_of_errors, fne |-> flag_no_errors, fie |-> FALSE])
       IN /\ number_of_errors' = st.noe
          /\ flag_no_errors' = st.fne
          /\ comparision_file' =
                 IF st.fie /\ flag_save_details_to_file
                 THEN [comparision_file EXCEPT
                          !.lines = @ \o EntryLines(results, results_names, test_target, j)]
                 ELSE comparision_file
          /\ j' = IF st.fie THEN Len(test_target) ELSE j + 1
    /\ visited' = Append(visited, j)
    /\ UNCHANGED << cmp_pc, results, results_names, test_target,
                    flag_save_details_to_file, stdout >>
    /\ UNCHANGED << gen_vars, td_vars, emg_vars >>

CompareSample ==
    /\ cmp_pc = "loop"
    /\ j < Len(test_target)
    /\ LET st == CheckVariants(results, test_target, j, 0,
                     [noe |-> number_of_errors, fne |-> flag_no_errors, fie |-> FALSE])
       IN /\ number_of_errors' = st.noe
          /\ flag_no_errors' = st.fne
          /\ comparision_file' =
                 IF st.fie /\ flag_save_details_to_file
                 THEN [comparision_file EXCEPT
                          !.lines = @ \o EntryLines(results, results_names, test_target, j)]
                 ELSE comparision_file
    /\ visited' = Append(visited, j)
    /\ j' = j + 1
    /\ UNCHANGED << cmp_pc, results, results_names, test_target,
                    flag_save_details_to_file, stdout >>
    /\ UNCHANGED << gen_vars, td_vars, emg_vars >>

\* line 182: range exhausted
CompareLoopExit ==
    /\ cmp_pc = "loop"
    /\ j >= Len(test_target)
    /\ cmp_pc' = "summary"
    /\ UNCHANGED << results, results_names, test_target, flag_save_details_to_file,
                    flag_no_errors, number_of_errors, comparision_file, j, visited, stdout >>
    /\ UNCHANGED << gen_vars, td_vars, emg_vars >>

\* lines 197-201
SummaryLines(fne, names, noe) ==
    IF fne THEN << << "All results were the same" >> >>
    ELSE [k \in 1..Len(noe) |-> << "Number of errors", names[k], noe[k] >>]

CompareSummary ==
    /\ cmp_pc = "summary"
    /\ stdout' = stdout \o SummaryLines(flag_no_errors, results_names, number_of_errors)
    /\ cmp_pc' = "done"
    /\ UNCHANGED << results, results_names, test_target, flag_save_details_to_file,
                    flag_no_errors, number_of_errors, comparision_file, j, visited >>
    /\ UNCHANGED << gen_vars, td_vars, emg_vars >>

CompareNext == CompareEntry \/ CompareSample \/ CompareLoopExit \/ CompareSummary

\* a call of _compare_with_own_classifier(res, names, tgt, flag)
CompareCallState(res, names, tgt, flag) ==
    /\ cmp_pc = "entry"
    /\ results = res
    /\ results_names = names
    /\ test_target = tgt
    /\ flag_save_details_to_file = flag
    /\ flag_no_errors = TRUE
    /\ number_of_errors = << >>
    /\ comparision_file = NoFile
    /\ j = 0
    /\ visited = << >>
    /\ stdout = << >>

CompareIdle ==
    /\ cmp_pc = "idle"
    /\ results = << >>
    /\ results_names = << >>
    /\ test_target = << >>
    /\ flag_save_details_to_file = TRUE
    /\ flag_no_errors = TRUE
    /\ number_of_errors = << >>
    /\ comparision_file = NoFile
    /\ j = 0
    /\ visited = << >>
    /\ stdout = << >>

-----------------------------------------------------------------------------
(* generate_my_classifier *)

\* the classes a trained model may be an instance of (sklearn estimators)
ModelKinds == { "DecisionTreeClassifier", "RandomForestClassifier",
                "RandomForestRegressor", "DecisionTreeRegressor",
                "ExtraTreeClassifier", "SVC" }

\* isinstance(clf, base): base is the class of clf or one of its base classes
\* (sklearn: class ExtraTreeClassifier(DecisionTreeClassifier))
BaseClasses(cls) ==
    IF cls = "ExtraTreeClassifier" THEN {"ExtraTreeClassifier", "DecisionTreeClassifier"}
    ELSE {cls}

IsInstance(c, base) == base \in BaseClasses(c.cls)

\* my_clf before it is assigned / no classifier returned
NoMyClf == [cls |-> "None", name |-> "None", number_of_features |-> 0,
            number_of_bits_per_feature |-> 0, built_from |-> "None",
            vhdl_file |-> FALSE, parameters_printed |-> FALSE]

\* Tree(name, number_of_features, number_of_bits_per_feature) and
\* RandomForest(name, number_of_features, number_of_bits_per_feature)
NewMyClf(cls, name, nof, nob) ==
    [cls |-> cls, name |-> name, number_of_features |-> nof,
     number_of_bits_per_feature |-> nob, built_from |-> "None",
     vhdl_file |-> FALSE, parameters_printed |-> FALSE]

\* lines 153-161: the isinstance chain; "raise" stands for the ValueError
DispatchFallsBackToTree(c, nof, nob) ==
    IF IsInstance(c, "RandomForestClassifier")
    THEN NewMyClf("RandomForest", "RandomForestClassifier", nof, nob)
    ELSE NewMyClf("Tree", "DecisionTreeClassifier", nof, nob)

Dispatch(c, nof, nob) ==
    IF IsInstance(c, "DecisionTreeClassifier")
    THEN NewMyClf("Tree", "DecisionTreeClassifier", nof, nob)
    ELSE IF IsInstance(c, "RandomForestClassifier")
    THEN NewMyClf("RandomForest", "RandomForestClassifier", nof, nob)
    ELSE [NoMyClf EXCEPT !.cls = "raise"]

GenUnchangedArgs ==
    UNCHANGED << gen_clf, gen_number_of_features, gen_number_of_bits_per_feature, emg_vars >>

\* lines 153-158: a supported model, my_clf is constructed
GenConstruct ==
    /\ gen_pc = "entry"
    /\ LET m == Dispatch(gen_clf, gen_number_of_features, gen_number_of_bits_per_feature)
       IN /\ m.cls # "raise"
          /\ gen_my_clf' = m
    /\ gen_pc' = "constructed"
    /\ GenUnchangedArgs
    /\ UNCHANGED << gen_return, gen_calls, cmp_vars, td_vars >>

\* lines 159-161: raise ValueError("Unknown type of classifier!")
GenRaise ==
    /\ gen_pc = "entry"
    /\ Dispatch(gen_clf, gen_number_of_features, gen_number_of_bits_per_feature).cls = "raise"
    /\ gen_pc' = "raised"
    /\ GenUnchangedArgs
    /\ UNCHANGED << gen_my_clf, gen_return, gen_calls, cmp_vars, td_vars >>

\* line 163: my_clf.build(clf)
GenBuild ==
    /\ gen_pc = "constructed"
    /\ gen_my_clf' = [gen_my_clf EXCEPT !.built_from = gen_clf.fitted_on]
    /\ gen_calls' = Append(gen_calls, "build")
    /\ gen_pc' = "built"
    /\ GenUnchangedArgs
    /\ UNCHANGED << gen_return, cmp_vars, td_vars >>

\* line 164: my_clf.create_vhdl_file(path)
GenCreateVhdlFile ==
    /\ gen_pc = "built"
    /\ gen_my_clf' = [gen_my_clf EXCEPT !.vhdl_file = TRUE]
    /\ gen_calls' = Append(gen_calls, "create_vhdl_file")
    /\ gen_pc' = "vhdl"
    /\ GenUnchangedArgs
    /\ UNCHANGED << gen_return, cmp_vars, td_vars >>

\* line 165: my_clf.print_parameters(result_file)
GenPrintParameters ==
    /\ gen_pc = "vhdl"
    /\ gen_my_clf' = [gen_my_clf EXCEPT !.parameters_printed = TRUE]
    /\ gen_calls' = Append(gen_calls, "print_parameters")
    /\ gen_pc' = "printed"
    /\ GenUnchangedArgs
    /\ UNCHANGED << gen_return, cmp_vars, td_vars >>

\* line 167: return my_clf
GenReturn ==
    /\ gen_pc = "printed"
    /\ gen_return' = gen_my_clf
    /\ gen_pc' = "returned"
    /\ GenUnchangedArgs
    /\ UNCHANGED << gen_my_clf, gen_calls, cmp_vars, td_vars >>

GenerateNext ==
    \/ GenConstruct \/ GenRaise \/ GenBuild \/ GenCreateVhdlFile
    \/ GenPrintParameters \/ GenReturn

\* a call of generate_my_classifier(c, nof, nob, path)
GenerateCallState(c, nof, nob) ==
    /\ gen_pc = "entry"
    /\ gen_clf = c
    /\ gen_number_of_features = nof
    /\ gen_number_of_bits_per_feature = nob
    /\ gen_my_clf = NoMyClf
    /\ gen_return = NoMyClf
    /\ gen_calls = << >>

GenerateIdle ==
    /\ gen_pc = "idle"
    /\ gen_clf = [cls |-> "None", fitted_on |-> "unfitted"]
    /\ gen_number_of_features = 0
    /\ gen_number_of_bits_per_feature = 0
    /\ gen_my_clf = NoMyClf
    /\ gen_return = NoMyClf
    /\ gen_calls = << >>

-----------------------------------------------------------------------------
(* test_dataset *)

MaxTestSamples == 2

\* the values EMGRaw's main passes as number_of_bits_per_feature
BitWidths == {1, 2, 3, 4, 5, 6, 7, 8, 10, 12, 16}

FeatureCounts == {1, 2}

ClassifierTypes == {"DECISION_TREE", "RANDOM_FOREST", "RANDOM_FOREST_REGRESSOR"}

\* utils.constants.get_classifier: the scikit estimator of a ClassifierType, not yet fitted
GetClassifier(t) ==
    [cls |-> CASE t = "DECISION_TREE" -> "DecisionTreeClassifier"
               [] t = "RANDOM_FOREST" -> "RandomForestClassifier"
               [] t = "RANDOM_FOREST_REGRESSOR" -> "RandomForestRegressor",
     fitted_on |-> "unfitted"]

\* clf.fit(data, train_target): the estimator is re-fitted from scratch on data
Fit(c, data) == [c EXCEPT !.fitted_on = data]

NoPrediction == [vals |-> << >>, fitted_on |-> "None", data |-> "None"]

\* x.predict(data), with x in the state fitted_on: a fresh array of one value per sample
PredictionSets(fitted_on, data) ==
    { [vals |-> v, fitted_on |-> fitted_on, data |-> data] :
          v \in Vectors(Len(td_test_target)) }

\* lines 84-87 and 115-119 / 139-143: which report is written, and where
ReportPerformance(t, result_file) ==
    [report |-> IF t = "RANDOM_FOREST_REGRESSOR" THEN "regressor" ELSE "classifier",
     to |-> result_file]

\* line 59: the bit width handed to generate_my_classifier
ThresholdBitsSame(b) == b

ThresholdBits(b) == b + 1

\* line 64: np.sum(a != b)
RECURSIVE CountDifferences(_, _, _)
CountDifferences(a, b, k) ==
    IF k > Len(a) THEN 0
    ELSE (IF a[k] # b[k] THEN 1 ELSE 0) + CountDifferences(a, b, k + 1)

TdUnchangedArgs ==
    UNCHANGED << number_of_bits_per_feature, clf_type, number_of_features, td_test_target,
                 emg_vars >>

\* line 35
TdGetClassifier ==
    /\ td_pc = "start"
    /\ clf' = GetClassifier(clf_type)
    /\ td_pc' = "fit"
    /\ TdUnchangedArgs
    /\ UNCHANGED << data_quantized, test_predicted, test_predicted_quantized, my_clf,
                    my_clf_test_predicted_quantized, differences_scikit_my, score_file,
                    cmp_vars, gen_vars >>

\* line 38
TdFit ==
    /\ td_pc = "fit"
    /\ clf' = Fit(clf, "train_data")
    /\ td_pc' = "predict"
    /\ TdUnchangedArgs
    /\ UNCHANGED << data_quantized, test_predicted, test_predicted_quantized, my_clf,
                    my_clf_test_predicted_quantized, differences_scikit_my, score_file,
                    cmp_vars, gen_vars >>

\* line 39
TdPredict ==
    /\ td_pc = "predict"
    /\ test_predicted' \in PredictionSets(clf.fitted_on, "test_data")
    /\ td_pc' = "report"
    /\ TdUnchangedArgs
    /\ UNCHANGED << clf, data_quantized, test_predicted_quantized, my_clf,
                    my_clf_test_predicted_quantized, differences_scikit_my, score_file,
                    cmp_vars, gen_vars >>

\* line 41
TdReport ==
    /\ td_pc = "report"
    /\ score_file' = Append(score_file, ReportPerformance(clf_type, "result_file"))
    /\ td_pc' = "quantize"
    /\ TdUnchangedArgs
    /\ UNCHANGED << clf, data_quantized, test_predicted, test_predicted_quantized, my_clf,
                    my_clf_test_predicted_quantized, differences_scikit_my,
                    cmp_vars, gen_vars >>

\* lines 46-49: quantize_data(train_data, test_data, number_of_bits_per_feature, ...)
TdQuantize ==
    /\ td_pc = "quantize"
    /\ data_quantized' = [made |-> TRUE, bits |-> number_of_bits_per_feature,
                          calls |-> data_quantized.calls + 1]
    /\ td_pc' = "fit_quantized"
    /\ TdUnchangedArgs
    /\ UNCHANGED << clf, test_predicted, test_predicted_quantized, my_clf,
                    my_clf_test_predicted_quantized, differences_scikit_my, score_file,
                    cmp_vars, gen_vars >>

\* line 51
TdFitQuantizedOnRawData ==
    /\ td_pc = "fit_quantized"
    /\ clf' = Fit(clf, "train_data")
    /\ td_pc' = "predict_quantized"
    /\ TdUnchangedArgs
    /\ UNCHANGED << data_quantized, test_predicted, test_predicted_quantized, my_clf,
                    my_clf_test_predicted_quantized, differences_scikit_my, score_file,
                    cmp_vars, gen_vars >>

TdFitQuantized ==
    /\ td_pc = "fit_quantized"
    /\ clf' = Fit(clf, "train_data_quantized")
    /\ td_pc' = "predict_quantized"
    /\ TdUnchangedArgs
    /\ UNCHANGED << data_quantized, test_predicted, test_predicted_quantized, my_clf,
                    my_clf_test_predicted_quantized, differences_scikit_my, score_file,
                    cmp_vars, gen_vars >>

\* line 52
TdPredictQuantized ==
    /\ td_pc = "predict_quantized"
    /\ test_predicted_quantized' \in PredictionSets(clf.fitted_on, "test_data_quantized")
    /\ td_pc' = "report_quantized"
    /\ TdUnchangedArgs
    /\ UNCHANGED << clf, data_quantized, test_predicted, my_clf,
                    my_clf_test_predicted_quantized, differences_scikit_my, score_file,
                    cmp_vars, gen_vars >>

\* line 54
TdReportQuantized ==
    /\ td_pc = "report_quantized"
    /\ score_file' = Append(score_file, ReportPerformance(clf_type, "result_file"))
    /\ td_pc' = "generate"
    /\ TdUnchangedArgs
    /\ UNCHANGED << clf, data_quantized, test_predicted, test_predicted_quantized, my_clf,
                    my_clf_test_predicted_quantized, differences_scikit_my,
                    cmp_vars, gen_vars >>

\* lines 57-59: the call of generate_my_classifier
TdCallGenerate ==
    /\ td_pc = "generate"
    /\ gen_pc' = "entry"
    /\ gen_clf' = clf
    /\ gen_number_of_features' = number_of_features
    /\ gen_number_of_bits_per_feature' = ThresholdBits(number_of_bits_per_feature)
    /\ gen_my_clf' = NoMyClf
    /\ gen_return' = NoMyClf
    /\ gen_calls' = << >>
    /\ td_pc' = "in_generate"
    /\ TdUnchangedArgs
    /\ UNCHANGED << clf, data_quantized, test_predicted, test_predicted_quantized, my_clf,
                    my_clf_test_predicted_quantized, differences_scikit_my, score_file,
                    cmp_vars >>

\* line 59: generate_my_classifier returned, my_clf is assigned
TdGenerateReturned ==
    /\ td_pc = "in_generate"
    /\ gen_pc = "returned"
    /\ my_clf' = gen_return
    /\ td_pc' = "predict_own"
    /\ TdUnchangedArgs
    /\ UNCHANGED << clf, data_quantized, test_predicted, test_predicted_quantized,
                    my_clf_test_predicted_quantized, differences_scikit_my, score_file,
                    cmp_vars, gen_vars >>

\* line 59: the ValueError of generate_my_classifier leaves test_dataset
TdGenerateRaised ==
    /\ td_pc = "in_generate"
    /\ gen_pc = "raised"
    /\ td_pc' = "raised"
    /\ TdUnchangedArgs
    /\ UNCHANGED << clf, data_quantized, test_predicted, test_predicted_quantized, my_clf,
                    my_clf_test_predicted_quantized, differences_scikit_my, score_file,
                    cmp_vars, gen_vars >>

\* line 60
TdPredictOwn ==
    /\ td_pc = "predict_own"
    /\ my_clf_test_predicted_quantized'
           \in PredictionSets(my_clf.built_from, "test_data_quantized")
    /\ td_pc' = "report_own"
    /\ TdUnchangedArgs
    /\ UNCHANGED << clf, data_quantized, test_predicted, test_predicted_quantized, my_clf,
                    differences_scikit_my, score_file, cmp_vars, gen_vars >>

\* line 62
TdReportOwn ==
    /\ td_pc = "report_own"
    /\ score_file' = Append(score_file, ReportPerformance(clf_type, "stdout"))
    /\ td_pc' = "differences"
    /\ TdUnchangedArgs
    /\ UNCHANGED << clf, data_quantized, test_predicted, test_predicted_quantized, my_clf,
                    my_clf_test_predicted_quantized, differences_scikit_my,
                    cmp_vars, gen_vars >>

\* lines 64-65
TdDifferences ==
    /\ td_pc = "differences"
    /\ differences_scikit_my' = CountDifferences(test_predicted_quantized.vals,
                                                 my_clf_test_predicted_quantized.vals, 1)
    /\ td_pc' = "compare"
    /\ TdUnchangedArgs
    /\ UNCHANGED << clf, data_quantized, test_predicted, test_predicted_quantized, my_clf,
                    my_clf_test_predicted_quantized, score_file, cmp_vars, gen_vars >>

\* lines 68-73: the call of _compare_with_own_classifier
TdCallCompare ==
    /\ td_pc = "compare"
    /\ cmp_pc' = "entry"
    /\ results' = << test_predicted.vals, test_predicted_quantized.vals,
                     my_clf_test_predicted_quantized.vals >>
    /\ results_names' = << "scikit", "scikit_quantized", "own_clf_quantized" >>
    /\ test_target' = td_test_target
    /\ flag_save_details_to_file' = TRUE
    /\ UNCHANGED << flag_no_errors, number_of_errors, comparision_file, j, visited, stdout >>
    /\ td_pc' = "in_compare"
    /\ TdUnchangedArgs
    /\ UNCHANGED << clf, data_quantized, test_predicted, test_predicted_quantized, my_clf,
                    my_clf_test_predicted_quantized, differences_scikit_my, score_file,
                    gen_vars >>

\* line 73: _compare_with_own_classifier returned, test_dataset ends
TdCompareReturned ==
    /\ td_pc = "in_compare"
    /\ cmp_pc = "done"
    /\ td_pc' = "done"
    /\ TdUnchangedArgs
    /\ UNCHANGED << clf, data_quantized, test_predicted, test_predicted_quantized, my_clf,
                    my_clf_test_predicted_quantized, differences_scikit_my, score_file,
                    cmp_vars, gen_vars >>

TestNext ==
    \/ TdGetClassifier \/ TdFit \/ TdPredict \/ TdReport \/ TdQuantize
    \/ TdFitQuantized \/ TdPredictQuantized \/ TdReportQuantized
    \/ TdCallGenerate \/ TdGenerateReturned \/ TdGenerateRaised
    \/ TdPredictOwn \/ TdReportOwn \/ TdDifferences
    \/ TdCallCompare \/ TdCompareReturned
    \/ GenerateNext
    \/ CompareNext

\* a call of test_dataset(b, ..., tgt, t, ...), train_data having nof columns
TestCallState(b, t, nof, tgt) ==
    /\ td_pc = "start"
    /\ number_of_bits_per_feature = b
    /\ clf_type = t
    /\ number_of_features = nof
    /\ td_test_target = tgt
    /\ clf = [cls |-> "None", fitted_on |-> "unfitted"]
    /\ data_quantized = [made |-> FALSE, bits |-> 0, calls |-> 0]
    /\ test_predicted = NoPrediction
    /\ test_predicted_quantized = NoPrediction
    /\ my_clf = NoMyClf
    /\ my_clf_test_predicted_quantized = NoPrediction
    /\ differences_scikit_my = 0
    /\ score_file = << >>

TestIdle ==
    /\ td_pc = "idle"
    /\ number_of_bits_per_feature = 0
    /\ clf_type = "None"
    /\ number_of_features = 0
    /\ td_test_target = << >>
    /\ clf = [cls |-> "None", fitted_on |-> "unfitted"]
    /\ data_quantized = [made |-> FALSE, bits |-> 0, calls |-> 0]
    /\ test_predicted = NoPrediction
    /\ test_predicted_quantized = NoPrediction
    /\ my_clf = NoMyClf
    /\ my_clf_test_predicted_quantized = NoPrediction
    /\ differences_scikit_my = 0
    /\ score_file = << >>

-----------------------------------------------------------------------------
(* EMGRaw (datasets/emg_raw.py) *)

MaxRows == 2
MaxOutRows == 1

\* float('inf'): above every value a file holds
Inf == 1000000

\* the first RmsColumns columns of a row are the rms features, the rest the zero crossings
RmsColumns == 8

\* rows of the input files: 8 rms values followed by zero-crossing values
RmsVals == {-2, 1}
ZcVals == {0, 3}
InputRow(a, c) == << a, a, a, a, a, a, a, a + 1, c, c + 1 >>
InputRowPool == { InputRow(a, c) : a \in RmsVals, c \in ZcVals }

\* rows of the output files: one-hot strings (or a row without '1')
OutputRowPool == { << "0", "1" >>, << "0", "0" >> }

SeqsUpTo(S, n) == UNION { [1..k -> S] : k \in 0..n }

Min(S) == CHOOSE x \in S : \A y \in S : x <= y
Max(S) == CHOOSE x \in S : \A y \in S : x >= y

\* data[:, :8] and data[:, 8:], as the sets of their values
RmsValues(data) ==
    { data[r][c] : r \in 1..Len(data), c \in 1..RmsColumns }
ZeroCrossingValues(data) ==
    UNION { { data[r][c] : c \in (RmsColumns + 1)..Len(data[r]) } : r \in 1..Len(data) }

\* lines 14-17: the fields after __init__
InitMinMax == [min_rms |-> Inf, max_rms |-> 0,
               min_zero_crossings |-> Inf, max_zero_crossings |-> 0]

\* lines 19-35: _update_min_max on a non-empty array
UpdateMinMaxLastFileWins(mm, data) ==
    [min_rms |-> Min(RmsValues(data)),
     max_rms |-> Max(RmsValues(data)),
     min_zero_crossings |-> Min(ZeroCrossingValues(data)),
     max_zero_crossings |-> Max(ZeroCrossingValues(data))]

UpdateMinMax(mm, data) ==
    LET min_rms_ == Min(RmsValues(data))
        max_rms_ == Max(RmsValues(data))
        min_zc_ == Min(ZeroCrossingValues(data))
        max_zc_ == Max(ZeroCrossingValues(data))
    IN [min_rms |-> IF min_rms_ < mm.min_rms THEN min_rms_ ELSE mm.min_rms,
        max_rms |-> IF max_rms_ > mm.max_rms THEN max_rms_ ELSE mm.max_rms,
        min_zero_crossings |-> IF min_zc_ < mm.min_zero_crossings
                               THEN min_zc_ ELSE mm.min_zero_crossings,
        max_zero_crossings |-> IF max_zc_ > mm.max_zero_crossings
                               THEN max_zc_ ELSE mm.max_zero_crossings]

\* lines 80-84: _normalise; a normalised value is the quotient num / den, kept exact
Normalise(data, mm) ==
    [r \in 1..Len(data) |->
        [c \in 1..Len(data[r]) |->
            IF c <= RmsColumns
            THEN [num |-> data[r][c] - mm.min_rms,
                  den |-> mm.max_rms - mm.min_rms]
            ELSE [num |-> data[r][c] - mm.min_zero_crossings,
                  den |-> mm.max_zero_crossings - mm.min_zero_crossings]]]

\* line 44: row.index('1'), -1 standing for the ValueError of a row without '1'
IndexOfOne(row) ==
    IF \E k \in 1..Len(row) : row[k] = "1"
    THEN Min({ k \in 1..Len(row) : row[k] = "1" }) - 1
    ELSE -1

EmgUnchangedOthers == UNCHANGED << cmp_vars, gen_vars, td_vars >>

\* lines 37-52, is_output=False: the rows of the input files are read; an empty array
\* makes data[:, :8] in _update_min_max raise
EmgLoadInput(at, next, is_train) ==
    /\ emg_pc = at
    /\ \E rows \in SeqsUpTo(InputRowPool, MaxRows) :
        IF rows = << >>
        THEN /\ emg_pc' = "raised"
             /\ UNCHANGED << min_max, input_train_data, input_test_data,
                             raw_train, raw_test >>
        ELSE /\ emg_pc' = next
             /\ min_max' = UpdateMinMax(min_max, rows)
             /\ IF is_train
                THEN /\ input_train_data' = rows
                     /\ raw_train' = rows
                     /\ UNCHANGED << input_test_data, raw_test >>
                ELSE /\ input_test_data' = rows
                     /\ raw_test' = rows
                     /\ UNCHANGED << input_train_data, raw_train >>
    /\ emg_calls' = Append(emg_calls, IF is_train THEN "load_input_train"
                                                  ELSE "load_input_test")
    /\ UNCHANGED << output_train_data, output_test_data, normalise_used >>
    /\ EmgUnchangedOthers

\* lines 37-52, is_output=True: min and max are not touched
EmgLoadOutput(at, next, is_train) ==
    /\ emg_pc = at
    /\ \E rows \in SeqsUpTo(OutputRowPool, MaxOutRows) :
        IF \E r \in 1..Len(rows) : IndexOfOne(rows[r]) = -1
        THEN /\ emg_pc' = "raised"
             /\ UNCHANGED << output_train_data, output_test_data >>
        ELSE /\ emg_pc' = next
             /\ IF is_train
                THEN /\ output_train_data' = [r \in 1..Len(rows) |-> << IndexOfOne(rows[r]) >>]
                     /\ UNCHANGED output_test_data
                ELSE /\ output_test_data' = [r \in 1..Len(rows) |-> << IndexOfOne(rows[r]) >>]
                     /\ UNCHANGED output_train_data
    /\ emg_calls' = Append(emg_calls, IF is_train THEN "load_output_train"
                                                  ELSE "load_output_test")
    /\ UNCHANGED << min_max, input_train_data, input_test_data, raw_train, raw_test,
                    normalise_used >>
    /\ EmgUnchangedOthers

\* line 70
EmgLoadTrainInput == EmgLoadInput("load_input_train", "load_output_train", TRUE)
\* line 71
EmgLoadTrainOutput == EmgLoadOutput("load_output_train", "load_input_test", TRUE)
\* line 72
EmgLoadTestInput == EmgLoadInput("load_input_test", "load_output_test", FALSE)
\* line 73
EmgLoadTestOutput == EmgLoadOutput("load_output_test", "normalise_train", FALSE)

\* line 75
EmgNormaliseTrain ==
    /\ emg_pc = "normalise_train"
    /\ input_train_data' = Normalise(input_train_data, min_max)
    /\ normalise_used' = Append(normalise_used, min_max)
    /\ emg_calls' = Append(emg_calls, "normalise_train")
    /\ emg_pc' = "normalise_test"
    /\ UNCHANGED << min_max, output_train_data, input_test_data, output_test_data,
                    raw_train, raw_test >>
    /\ EmgUnchangedOthers

\* lines 76-78
EmgNormaliseTest ==
    /\ emg_pc = "normalise_test"
    /\ input_test_data' = Normalise(input_test_data, min_max)
    /\ normalise_used' = Append(normalise_used, min_max)
    /\ emg_calls' = Append(emg_calls, "normalise_test")
    /\ emg_pc' = "done"
    /\ UNCHANGED << min_max, input_train_data, output_train_data, output_test_data,
                    raw_train, raw_test >>
    /\ EmgUnchangedOthers

EmgNext ==
    \/ EmgLoadTrainInput \/ EmgLoadTrainOutput \/ EmgLoadTestInput \/ EmgLoadTestOutput
    \/ EmgNormaliseTrain \/ EmgNormaliseTest

\* EMGRaw(path) constructed, load_data entered
EmgCallState ==
    /\ emg_pc = "load_input_train"
    /\ min_max = InitMinMax
    /\ input_train_data = << >>
    /\ output_train_data = << >>
    /\ input_test_data = << >>
    /\ output_test_data = << >>
    /\ raw_train = << >>
    /\ raw_test = << >>
    /\ normalise_used = << >>
    /\ emg_calls = << >>

EmgIdle ==
    /\ emg_pc = "idle"
    /\ min_max = InitMinMax
    /\ input_train_data = << >>
    /\ output_train_data = << >>
    /\ input_test_data = << >>
    /\ output_test_data = << >>
    /\ raw_train = << >>
    /\ raw_test = << >>
    /\ normalise_used = << >>
    /\ emg_calls = << >>

-----------------------------------------------------------------------------
(* Specifications *)

InitCompare ==
    \E n \in 0..MaxSamples, v \in 0..MaxVariants :
        \E tgt \in Vectors(n), res \in [1..v -> Vectors(n)], flag \in BOOLEAN :
            /\ CompareCallState(res, SubSeq(NamePool, 1, v), tgt, flag)
            /\ GenerateIdle
            /\ TestIdle
            /\ EmgIdle

SpecCompare == InitCompare /\ [][CompareNext]_vars

MaxBits == 3

InitGenerate ==
    \E kind \in ModelKinds,
       fitted \in {"train_data", "train_data_quantized"},
       nof \in FeatureCounts,
       nob \in 1..MaxBits :
        /\ GenerateCallState([cls |-> kind, fitted_on |-> fitted], nof, nob)
        /\ CompareIdle
        /\ TestIdle
        /\ EmgIdle

SpecGenerate == InitGenerate /\ [][GenerateNext]_vars

InitTest ==
    \E b \in BitWidths, t \in ClassifierTypes, nof \in FeatureCounts,
       n \in 0..MaxTestSamples :
        \E tgt \in Vectors(n) :
            /\ TestCallState(b, t, nof, tgt)
            /\ GenerateIdle
            /\ CompareIdle
            /\ EmgIdle

SpecTest == InitTest /\ [][TestNext]_vars

InitEMG ==
    /\ EmgCallState
    /\ CompareIdle
    /\ GenerateIdle
    /\ TestIdle

SpecEMG == InitEMG /\ [][EmgNext]_vars

-----------------------------------------------------------------------------
(* Properties of _compare_with_own_classifier (SpecCompare) *)

\* the samples (1-based) at which at least two variants' predictions differ
DisagreeingSamples ==
    { s \in 1..Len(test_target) :
          \E a, b \in 1..Len(results) : results[a][s] # results[b][s] }

\* the samples (1-based) at which variant i's prediction is not the ground truth
MismatchesOf(i, upto) == { s \in 1..upto : results[i][s] # test_target[s] }

\* the entries of the file: it is a sequence of blocks of 2 + len(results) lines
EntryLength == 2 + Len(results)
NumberOfEntries == Len(comparision_file.lines) \div EntryLength
EntryAt(k) == SubSeq(comparision_file.lines, (k - 1) * EntryLength + 1, k * EntryLength)

\* what the claim wants logged for sample s: the header, the ground truth, and every
\* variant's prediction under its name, in the order the variants were passed
ExpectedEntry(s) ==
    [k \in 1..EntryLength |->
        IF k = 1 THEN << "Difference between versions!" >>
        ELSE IF k = 2 THEN << "Ground true: ", test_target[s] >>
        ELSE << results_names[k - 2], results[k - 2][s] >>]

\* C2: with flag_save_details_to_file, the number of logged entries equals the number
\* of samples at which at least two variants' predictions differ.
C2_EntriesCountDisagreeingSamples ==
    (cmp_pc = "done" /\ flag_save_details_to_file)
        => NumberOfEntries = Cardinality(DisagreeingSamples)

\* C3: number_of_errors[i] is exactly the number of samples, among those the loop has
\* run for, at which variant i's prediction differs from the ground truth; at the end
\* that is the number over all samples.
C3_ErrorCountsExact ==
    /\ cmp_pc \in {"loop", "summary", "done"}
           => \A i \in 1..Len(results) :
                  number_of_errors[i] = Cardinality(MismatchesOf(i, j))
    /\ cmp_pc = "done"
           => \A i \in 1..Len(results) :
                  number_of_errors[i] = Cardinality(MismatchesOf(i, Len(test_target)))

C3_Witness ==
    /\ cmp_pc = "done"
    /\ Len(results) = 3
    /\ Len(test_target) = 2
    /\ number_of_errors = << 2, 0, 1 >>

\* C4: with flag_save_details_to_file, every sample at which at least two variants
\* differ has its own entry in the file: ground truth and every variant's prediction,
\* labeled by name, in the order passed.
C4_DisagreeingSamplesLogged ==
    (cmp_pc = "done" /\ flag_save_details_to_file)
        => /\ Len(comparision_file.lines) = NumberOfEntries * EntryLength
           /\ \A s \in DisagreeingSamples :
                  Cardinality({ k \in 1..NumberOfEntries : EntryAt(k) = ExpectedEntry(s) })
                      >= Cardinality({ t \in DisagreeingSamples :
                                           ExpectedEntry(t) = ExpectedEntry(s) })

C4_Witness ==
    /\ cmp_pc = "done"
    /\ flag_save_details_to_file
    /\ Len(results) = 3
    /\ \E s \in DisagreeingSamples :
           /\ results[1][s] # test_target[s]
           /\ results[3][s] = test_target[s]
    /\ NumberOfEntries >= 1

\* C8: the loop runs for every sample index 0 .. len(test_target)-1 once, in increasing
\* order, whatever mismatches were found, and the function then prints the summary
\* and ends; it never stops before that.
C8_VisitsEverySampleThenSummary ==
    /\ cmp_pc \in {"loop", "summary", "done"} => visited = Range0(j)
    /\ cmp_pc \in {"summary", "done"} => visited = Range0(Len(test_target))
    /\ cmp_pc = "done" => Len(stdout) >= 1
    /\ cmp_pc \in {"entry", "loop", "summary"} => ENABLED CompareNext

C8_Witness ==
    /\ cmp_pc = "done"
    /\ Len(test_target) = 2
    /\ Len(results) >= 1
    /\ results[1][1] # test_target[1]
    /\ visited = << 0, 1 >>
    /\ ~flag_no_errors

-----------------------------------------------------------------------------
(* Properties of generate_my_classifier (SpecGenerate) *)

Unsupported(c) ==
    /\ ~IsInstance(c, "DecisionTreeClassifier")
    /\ ~IsInstance(c, "RandomForestClassifier")

\* C5: for a model that is neither a DecisionTreeClassifier nor a
\* RandomForestClassifier the function raises, and nothing else happens: no my_clf is
\* constructed or built, create_vhdl_file and print_parameters are not called, and
\* nothing is returned.
C5_UnsupportedRaisesWithoutProcessing ==
    Unsupported(gen_clf) =>
        /\ gen_pc \in {"entry", "raised"}
        /\ gen_pc = "entry" => ENABLED GenRaise
        /\ gen_my_clf = NoMyClf
        /\ gen_return = NoMyClf
        /\ gen_calls = << >>

C5_Witness ==
    /\ gen_pc = "raised"
    /\ gen_clf.cls = "SVC"
    /\ gen_calls = << >>

\* {single tree, tree ensemble} x {classifier, regressor}
PolymorphicKinds == { "DecisionTreeClassifier", "RandomForestClassifier",
                      "DecisionTreeRegressor", "RandomForestRegressor" }

\* C6: for every model kind of {single tree, tree ensemble} x {classifier, regressor},
\* a RandomForestRegressor included, the function builds and returns a fixed-point
\* model instead of raising.

C6_EveryTreeModelKindAccepted ==
    gen_clf.cls \in PolymorphicKinds => gen_pc # "raised"

-----------------------------------------------------------------------------
(* Properties of test_dataset (SpecTest) *)

VhdlFileCreated ==
    \E k \in 1..Len(gen_calls) : gen_calls[k] = "create_vhdl_file"

ComparisonMade == cmp_pc = "done"

\* C1: create_vhdl_file is not called on the fixed-point model before the comparison
\* has been made and has found no mismatch between the quantized-input-reference and
\* the fixed-point predictions.
C1_VhdlOnlyAfterCleanComparison ==
    VhdlFileCreated =>
        /\ ComparisonMade
        /\ CountDifferences(results[2], results[3], 1) = 0

\* C7: the fixed-point classifier is constructed with number_of_bits_per_feature + 1
\* bits, the data are quantized with number_of_bits_per_feature bits.
C7_ThresholdOneBitWider ==
    /\ gen_pc # "idle"
           => gen_number_of_bits_per_feature = number_of_bits_per_feature + 1
    /\ gen_my_clf.cls # "None"
           => gen_my_clf.number_of_bits_per_feature = number_of_bits_per_feature + 1
    /\ my_clf.cls # "None"
           => my_clf.number_of_bits_per_feature = number_of_bits_per_feature + 1
    /\ data_quantized.made => data_quantized.bits = number_of_bits_per_feature

C7_Witness ==
    /\ my_clf.cls = "RandomForest"
    /\ my_clf.number_of_bits_per_feature = 17
    /\ data_quantized.bits = 16

\* what each object of test_dataset was made from
C9_StateOrder ==
    /\ gen_my_clf.built_from \in {"None", "train_data_quantized"}
    /\ my_clf.cls # "None" => my_clf.built_from = "train_data_quantized"
    /\ test_predicted_quantized # NoPrediction
           => /\ test_predicted_quantized.fitted_on = "train_data_quantized"
              /\ test_predicted_quantized.data = "test_data_quantized"
              /\ data_quantized.made
    /\ my_clf_test_predicted_quantized # NoPrediction
           => /\ my_clf_test_predicted_quantized.fitted_on = "train_data_quantized"
              /\ my_clf_test_predicted_quantized.data = "test_data_quantized"
    /\ data_quantized.calls <= 1
    /\ test_predicted # NoPrediction
           => /\ test_predicted.fitted_on = "train_data"
              /\ test_predicted.data = "test_data"
    /\ clf.fitted_on = "train_data_quantized" => test_predicted # NoPrediction

\* C9: the fixed-point model is built from the classifier as re-fitted on the quantized
\* training data; the quantized-reference and the fixed-point predictions are both made
\* on the quantized test set of the one quantize_data call; the floating-reference
\* predictions are made by the classifier fitted on the raw data, on the raw test data,
\* and once made they never change.
C9_BuiltFromRefittedClassifier ==
    /\ []C9_StateOrder
    /\ [][test_predicted # NoPrediction => test_predicted' = test_predicted]_vars

C9_Witness ==
    /\ td_pc = "done"
    /\ my_clf.built_from = "train_data_quantized"
    /\ test_predicted.vals # test_predicted_quantized.vals
    /\ clf.fitted_on = "train_data_quantized"

-----------------------------------------------------------------------------
(* Properties of EMGRaw.load_data (SpecEMG) *)

LoadCalls == { "load_input_train", "load_output_train",
               "load_input_test", "load_output_test" }
NormaliseCalls == { "normalise_train", "normalise_test" }

AllRawRms == RmsValues(raw_train) \cup RmsValues(raw_test)
AllRawZeroCrossings == ZeroCrossingValues(raw_train) \cup ZeroCrossingValues(raw_test)

Bounds(mm) ==
    /\ \A v \in AllRawRms : mm.min_rms <= v /\ v <= mm.max_rms
    /\ \A v \in AllRawZeroCrossings :
           mm.min_zero_crossings <= v /\ v <= mm.max_zero_crossings

InUnitInterval(x) == x.den > 0 => (0 <= x.num /\ x.num <= x.den)

C10_State ==
    \* every _normalise call comes after the four _load_files calls
    /\ \A k \in 1..Len(emg_calls) :
           emg_calls[k] \in NormaliseCalls
               => \A c \in LoadCalls : \E m \in 1..(k - 1) : emg_calls[m] = c
    \* both calls read the same fields
    /\ Len(normalise_used) = 2 => normalise_used[1] = normalise_used[2]
    \* the fields bound every input value read so far, and those used bound them all
    /\ Bounds(min_max)
    /\ \A k \in 1..Len(normalise_used) : Bounds(normalise_used[k])
    \* the normalised values
    /\ emg_pc = "done"
           => \A data \in {input_train_data, input_test_data} :
                  \A r \in 1..Len(data) : \A c \in 1..Len(data[r]) :
                      InUnitInterval(data[r][c])

C10_Step ==
    /\ min_max.min_rms' <= min_max.min_rms
    /\ min_max.max_rms' >= min_max.max_rms
    /\ min_max.min_zero_crossings' <= min_max.min_zero_crossings
    /\ min_max.max_zero_crossings' >= min_max.max_zero_crossings
    /\ emg_pc \in {"load_output_train", "load_output_test"} => min_max' = min_max

\* C10: both _normalise calls come after all four _load_files calls and use the same
\* (min, max) per feature group; that pair bounds every input value of the train and
\* the test files; min never increases, max never decreases, output loads leave them
\* alone; with max > min every normalised value is in [0, 1].
C10_NormaliseWithGlobalMinMax ==
    /\ []C10_State
    /\ [][C10_Step]_vars

C10_Witness ==
    /\ emg_pc = "done"
    /\ Max(RmsValues(raw_train)) < min_max.max_rms
    /\ Min(RmsValues(raw_test)) > min_max.min_rms
    /\ \E r \in 1..Len(input_train_data) : \E c \in 1..RmsColumns :
           /\ input_train_data[r][c].num > 0
           /\ input_train_data[r][c].num < input_train_data[r][c].den

=============================================================================
